---- MODULE Spec2Model ----
(***************************************************************************)
(* WpCrasher (tools/WpCrasher/device.c): the touch-pattern recogniser run  *)
(* on every touch interrupt (WpCrasherEvtInterruptIsr), the forced bug     *)
(* check (WpCrasherDoBugCheck) and the monitor power callback              *)
(* (WpCrasherOnPowerSettingsChange).                                       *)
(*                                                                         *)
(* Time is counted in ticks of 0.1 s: KeQueryUnbiasedInterruptTime counts  *)
(* 100 ns units, and the handler only compares differences of timestamps   *)
(* with the period constants, which are all multiples of 0.1 s.            *)
(***************************************************************************)
EXTENDS Integers, FiniteSets, Sequences, TLC

\* ------------------------------------------------------------------------
\* Constants of device.h, in ticks of 0.1 s
\* ------------------------------------------------------------------------
INPUT_PATTERN_NUM_OF_SWIPES == 4

INPUT_PATTERN_MAX_PERIOD == 600

SINGLE_SWIPE_MIN_PERIOD == 50

SINGLE_SWIPE_MAX_PERIOD == 100

SINGLE_SWIPE_MAX_INTERVAL == 2

\* Monitor states carried by a GUID_MONITOR_POWER_ON notification
MONITOR_IS_OFF == 0

MONITOR_IS_ON == 1

\* LastProcessedMonitorState before any notification was acted upon
MONITOR_UNKNOWN == 3

\* sizeof(ULONG)
SIZEOF_ULONG == 4

STATUS_SUCCESS == "STATUS_SUCCESS"

STATUS_INVALID_PARAMETER == "STATUS_INVALID_PARAMETER"

\* ------------------------------------------------------------------------
\* Bounds of the model
\* ------------------------------------------------------------------------
\* The clock reading when the device is created.
BootTime == 1

\* No interrupt is delivered after this clock reading.
MaxTime == 640

\* The recording is started (device.c:171) at most this many times.
MaxColdStarts == 2

\* At most this many power notifications are delivered.
MaxNotifications == 4

\* Touch interrupts of the specification with the display cycle come before
\* this clock reading
NearTime == 60

\* Rests of the finger that are explored (distance of two interrupts beyond
\* SINGLE_SWIPE_MAX_INTERVAL): 0.3 s, around 5 s, around 10 s, 15 s, 20 s and
\* around the 60 s of the whole pattern.
RestGaps == {3, 49, 50, 100, 101, 150, 200, 600, 601}

\* While the finger is down interrupts come every 0.2 s; at these ages of the
\* touch they may also come with the same clock reading or after 0.1 s, so
\* that a touch is seen at 4.9 s, 5.1 s, ... as well as at 5.0 s, 5.2 s, ...
FineSpans == {48}

\* The finger is lifted only at these ages of the touch.
LiftSpans == {0, 51, 52, 102}

\* Values of the arguments of the power callback
MonitorValues == {MONITOR_IS_OFF, MONITOR_IS_ON, 2}

NULL == "NULL"

Device == "WDFDEVICE"

\* Value points to a ULONG (a one-element sequence) or is NULL (the empty one)
NullValue == <<>>

ValueArgs == {<<v>> : v \in MonitorValues} \cup {NullValue}

LengthArgs == {SIZEOF_ULONG, 8}

ContextArgs == {Device, NULL}

VARIABLES
    now,                          \* KeQueryUnbiasedInterruptTime()
    TimeStampInputPatternBegin,   \* DEVICE_EXTENSION fields
    TimeStampSwipeBegin,
    TimeStampLastInterrupt,
    NumberOfSwipes,
    SwipeThreholdReached,
    LastProcessedMonitorState,
    interruptActive,              \* state of InterruptObject kept by the framework
    halted,                       \* KeBugCheckEx was called: the system stopped
    bugChecks,                    \* calls of WpCrasherDoBugCheck so far
    isrPath,                      \* exit taken by the last ISR call
    isrReturn,                    \* value returned by the last ISR call
    touchBegin,                   \* first interrupt of the current touch of the finger
    coldStarts,                   \* number of times the recording was started
    swipeStarts,                  \* new swipes started (device.c:238) since the
                                  \* recording started; 0 again once it is abandoned
    obs,                          \* the events since the recording started, as swipes
    pwPc,                         \* position inside WpCrasherOnPowerSettingsChange
    monitorState,                 \* its local variable
    pw,                           \* arguments and outcome of the current or last call
    pwPrev,                       \* the same for the call before it
    reports,                      \* WdfInterruptReportActive/Inactive calls, in order
    notifications,                \* number of power notifications delivered
    onlyOnOff                     \* no accepted notification carried another value

isrVars == <<now, TimeStampInputPatternBegin, TimeStampSwipeBegin,
             TimeStampLastInterrupt, NumberOfSwipes, SwipeThreholdReached,
             halted, bugChecks, isrPath, isrReturn, touchBegin, coldStarts, swipeStarts, obs>>

powerVars == <<LastProcessedMonitorState, interruptActive, pwPc, monitorState,
               pw, pwPrev, reports, notifications, onlyOnOff>>

vars == <<isrVars, powerVars>>

\* ------------------------------------------------------------------------
\* Conditions of WpCrasherEvtInterruptIsr
\* ------------------------------------------------------------------------
\* device.c:171 the recording has not started
NotStarted(patternBegin) == patternBegin = 0

\* (mutant) the overall period is not checked
PatternTimedOut_Never(currentTime, patternBegin) == FALSE

\* (mutant) the 60 s themselves already time out
PatternTimedOut_Inclusive(currentTime, patternBegin) ==
    currentTime - patternBegin >= INPUT_PATTERN_MAX_PERIOD

\* device.c:189 the entire process took over 60 seconds
PatternTimedOut(currentTime, patternBegin) ==
    currentTime - patternBegin > INPUT_PATTERN_MAX_PERIOD

\* (mutant) an interval of exactly 0.2 s separates two swipes as well
IsNewSwipe_Inclusive(stoppedTime) == stoppedTime >= SINGLE_SWIPE_MAX_INTERVAL

\* device.c:218 the interval of two inputs makes them two swipes
IsNewSwipe(stoppedTime) == stoppedTime > SINGLE_SWIPE_MAX_INTERVAL

\* (mutant) a wait of exactly 5 s is too short as well
RestOutOfWindow_Narrow(stoppedTime) ==
    \/ stoppedTime <= SINGLE_SWIPE_MIN_PERIOD
    \/ stoppedTime > SINGLE_SWIPE_MAX_PERIOD

\* device.c:224 the wait between two swipes is out of the window
RestOutOfWindow(stoppedTime) ==
    \/ stoppedTime < SINGLE_SWIPE_MIN_PERIOD
    \/ stoppedTime > SINGLE_SWIPE_MAX_PERIOD

\* (mutant) a swipe may take as long as the longest wait the comments allow
SwipeTimedOut_Late(swippingTime) ==
    swippingTime > SINGLE_SWIPE_MAX_PERIOD + SINGLE_SWIPE_MIN_PERIOD

\* device.c:247 the swipe took too long
SwipeTimedOut(swippingTime) == swippingTime > SINGLE_SWIPE_MAX_PERIOD

\* (mutant) a swipe is counted at every event after its first 5 s
NotYetOrCounted_NoGuard(swippingTime, reached) ==
    swippingTime < SINGLE_SWIPE_MIN_PERIOD

\* (mutant) a swipe of exactly 5 s is too short as well
NotYetOrCounted_Inclusive(swippingTime, reached) ==
    \/ swippingTime <= SINGLE_SWIPE_MIN_PERIOD
    \/ reached = TRUE

\* device.c:256 the swipe is too short yet, or was counted already
NotYetOrCounted(swippingTime, reached) ==
    \/ swippingTime < SINGLE_SWIPE_MIN_PERIOD
    \/ reached = TRUE

\* (mutants) the pattern is complete one swipe early, one swipe late
PatternComplete_Early(swipes) == swipes >= INPUT_PATTERN_NUM_OF_SWIPES - 1

PatternComplete_Late(swipes) == swipes = INPUT_PATTERN_NUM_OF_SWIPES + 1

\* device.c:271 the user swiped INPUT_PATTERN_NUM_OF_SWIPES times
PatternComplete(swipes) == swipes = INPUT_PATTERN_NUM_OF_SWIPES

\* (mutant) TRUE if the interrupt was recognised as part of a swipe
ExitValue_Recognized(path) == path \in {"counted", "completed"}

\* device.c:291-292 the value returned at Exit
ExitValue(path) == FALSE

\* ------------------------------------------------------------------------
\* WpCrasherEvtInterruptIsr, one call; gap is the clock advance since the
\* previous call, debugger tells whether a kernel debugger is attached when
\* WpCrasherDoBugCheck runs.
\* ------------------------------------------------------------------------
IsrColdStart(currentTime) ==
    /\ TimeStampInputPatternBegin' = currentTime
    /\ TimeStampSwipeBegin' = currentTime
    /\ TimeStampLastInterrupt' = currentTime
    /\ NumberOfSwipes' = 0
    /\ SwipeThreholdReached' = FALSE
    /\ isrPath' = "coldStart"
    /\ isrReturn' = ExitValue(isrPath')
    /\ UNCHANGED <<halted, bugChecks>>

IsrPatternTimeout ==
    /\ TimeStampInputPatternBegin' = 0
    /\ isrPath' = "patternTimeout"
    /\ isrReturn' = ExitValue(isrPath')
    /\ UNCHANGED <<TimeStampSwipeBegin, TimeStampLastInterrupt, NumberOfSwipes,
                   SwipeThreholdReached, halted, bugChecks>>

IsrRestAbandon(currentTime) ==
    /\ TimeStampLastInterrupt' = currentTime
    /\ TimeStampInputPatternBegin' = 0
    /\ isrPath' = "restAbandon"
    /\ isrReturn' = ExitValue(isrPath')
    /\ UNCHANGED <<TimeStampSwipeBegin, NumberOfSwipes, SwipeThreholdReached,
                   halted, bugChecks>>

\* device.c:50 IS_DEBUGGER_ATTACHED()
IS_DEBUGGER_ATTACHED(KD_DEBUGGER_NOT_PRESENT) == ~KD_DEBUGGER_NOT_PRESENT

\* device.c:53-80 __debugbreak() returns, KeBugCheckEx() stops the system
WpCrasherDoBugCheck(debugger) ==
    /\ bugChecks' = bugChecks + 1
    /\ halted' = ~debugger

\* device.c:247-283, after the swipe boundary was handled
IsrCount(currentTime, swipeBegin, swippingTime, reached, debugger) ==
    /\ TimeStampLastInterrupt' = currentTime
    /\ TimeStampSwipeBegin' = swipeBegin
    /\ IF SwipeTimedOut(swippingTime)
       THEN /\ TimeStampInputPatternBegin' = 0
            /\ SwipeThreholdReached' = reached
            /\ isrPath' = "swipeTimeout"
            /\ isrReturn' = ExitValue(isrPath')
            /\ UNCHANGED <<NumberOfSwipes, halted, bugChecks>>
       ELSE IF NotYetOrCounted(swippingTime, reached)
       THEN /\ SwipeThreholdReached' = reached
            /\ isrPath' = "earlyReturn"
            /\ isrReturn' = ExitValue(isrPath')
            /\ UNCHANGED <<TimeStampInputPatternBegin, NumberOfSwipes, halted,
                           bugChecks>>
       ELSE /\ NumberOfSwipes' = NumberOfSwipes + 1
            /\ SwipeThreholdReached' = TRUE
            /\ IF PatternComplete(NumberOfSwipes + 1)
               THEN /\ WpCrasherDoBugCheck(debugger)
                    /\ IF debugger
                       THEN \* the call returned
                            /\ TimeStampInputPatternBegin' = 0
                            /\ isrPath' = "completed"
                            /\ isrReturn' = ExitValue(isrPath')
                       ELSE \* it did not: nothing after device.c:276 runs
                            /\ isrPath' = "bugCheck"
                            /\ UNCHANGED <<TimeStampInputPatternBegin, isrReturn>>
               ELSE /\ isrPath' = "counted"
                    /\ isrReturn' = ExitValue(isrPath')
                    /\ UNCHANGED <<TimeStampInputPatternBegin, halted, bugChecks>>

WpCrasherEvtInterruptIsr(gap, debugger) ==
    /\ ~halted
    /\ now + gap <= MaxTime
    /\ LET currentTime == now + gap
           stoppedTime == currentTime - TimeStampLastInterrupt
           swippingTime == TimeStampLastInterrupt - TimeStampSwipeBegin
       IN  /\ now' = currentTime
           /\ IF NotStarted(TimeStampInputPatternBegin)
              THEN IsrColdStart(currentTime)
              ELSE IF PatternTimedOut(currentTime, TimeStampInputPatternBegin)
              THEN IsrPatternTimeout
              ELSE IF IsNewSwipe(stoppedTime)
              THEN IF RestOutOfWindow(stoppedTime)
                   THEN IsrRestAbandon(currentTime)
                   ELSE IsrCount(currentTime, currentTime, 0, FALSE, debugger)
              ELSE IsrCount(currentTime, TimeStampSwipeBegin, swippingTime,
                            SwipeThreholdReached, debugger)

\* ------------------------------------------------------------------------
\* The sequence of events since the recording started, read as swipes: a swipe
\* is a maximal run of events with gaps <= SINGLE_SWIPE_MAX_INTERVAL.
\*   first   the event that found the recording not started
\*   begin   first event of the current swipe
\*   swipes  number of swipes so far, the current one included
\*   plain   every finished swipe spanned strictly between 5 s and 10 s and
\*           every rest was strictly between 5 s and 15 s
\*   strict  moreover every finished swipe was qualified and no rest was
\*           longer than SINGLE_SWIPE_MAX_PERIOD
\*   qual    the current swipe is qualified: one of its events follows an
\*           event of the same swipe at least 5 s after the swipe began
\*   fired   calls of WpCrasherDoBugCheck since first
\* The observation ends (on = FALSE) when the sequence stops being one of at
\* most 4 such swipes within 60 s.
\* ------------------------------------------------------------------------
ObsOff == [on |-> FALSE, first |-> 0, begin |-> 0, swipes |-> 0, plain |-> FALSE,
           strict |-> FALSE, qual |-> FALSE, fired |-> 0]

ObsStart(currentTime) ==
    [on |-> TRUE, first |-> currentTime, begin |-> currentTime, swipes |-> 1,
     plain |-> TRUE, strict |-> TRUE, qual |-> FALSE, fired |-> 0]

ObsNext(gap, currentTime, idle, fired) ==
    IF idle /\ ~(obs.on /\ obs.fired > 0 /\ gap <= SINGLE_SWIPE_MAX_INTERVAL)
    THEN ObsStart(currentTime)
    ELSE IF ~obs.on \/ currentTime - obs.first > INPUT_PATTERN_MAX_PERIOD
    THEN ObsOff
    ELSE IF gap <= SINGLE_SWIPE_MAX_INTERVAL
    THEN IF currentTime - obs.begin >= 10 * 10
         THEN ObsOff
         ELSE [obs EXCEPT !.qual = @ \/ (now - obs.begin >= 5 * 10),
                          !.fired = @ + fired]
    ELSE IF \/ obs.swipes >= 4
            \/ ~(now - obs.begin > 5 * 10 /\ now - obs.begin < 10 * 10)
            \/ ~(gap > 5 * 10 /\ gap < 15 * 10)
         THEN ObsOff
         ELSE [obs EXCEPT !.swipes = @ + 1,
                          !.begin = currentTime,
                          !.strict = @ /\ obs.qual /\ gap <= 10 * 10,
                          !.qual = FALSE,
                          !.fired = @ + fired]

\* ------------------------------------------------------------------------
\* One touch interrupt: the clock has advanced by gap, the framework calls the
\* ISR if the interrupt is reported active.
\* ------------------------------------------------------------------------
EnvGaps ==
    LET age == now - touchBegin
    IN  (IF age \in FineSpans THEN {0, 1, 2} ELSE {2})
        \cup (IF age \in LiftSpans THEN RestGaps ELSE {})

InputEvent ==
    \E gap \in EnvGaps, KD_DEBUGGER_NOT_PRESENT \in BOOLEAN :
        /\ interruptActive
        /\ NotStarted(TimeStampInputPatternBegin) => coldStarts < MaxColdStarts
        /\ WpCrasherEvtInterruptIsr(gap, IS_DEBUGGER_ATTACHED(KD_DEBUGGER_NOT_PRESENT))
        /\ touchBegin' = IF gap > SINGLE_SWIPE_MAX_INTERVAL THEN now + gap
                         ELSE touchBegin
        /\ coldStarts' = IF NotStarted(TimeStampInputPatternBegin)
                         THEN coldStarts + 1 ELSE coldStarts
        /\ swipeStarts' = IF NotStarted(TimeStampInputPatternBegin) THEN 0
                          ELSE IF TimeStampSwipeBegin' # TimeStampSwipeBegin
                          THEN swipeStarts + 1
                          ELSE IF isrPath' \in {"patternTimeout", "restAbandon",
                                                "swipeTimeout"}
                          THEN 0
                          ELSE swipeStarts
        /\ obs' = ObsNext(gap, now + gap, NotStarted(TimeStampInputPatternBegin),
                          bugChecks' - bugChecks)
        /\ UNCHANGED powerVars

\* ------------------------------------------------------------------------
\* WpCrasherOnPowerSettingsChange
\* ------------------------------------------------------------------------
\* (mutant) every setting is taken for the monitor power setting
IsMonitorSetting_Any(SettingGuid) == TRUE

\* device.c:330 the notification is the monitor power setting
IsMonitorSetting(SettingGuid) == SettingGuid = "GUID_MONITOR_POWER_ON"

\* (mutant) the callback context is not checked
BadParameters_NoContext(Value, ValueLength, CbContext) ==
    \/ Value = NullValue
    \/ ValueLength # SIZEOF_ULONG

\* device.c:338 bad parameters
BadParameters(Value, ValueLength, CbContext) ==
    \/ Value = NullValue
    \/ ValueLength # SIZEOF_ULONG
    \/ CbContext = NULL

\* (mutant) no notification is recognised as a repetition
AlreadyProcessed_Never(last, state) == FALSE

\* device.c:347 the state was processed already
AlreadyProcessed(last, state) == last = state

\* (mutant) the store is missing
NewLastProcessed_Stale(last, state) == last

\* device.c:352 the value stored in LastProcessedMonitorState
NewLastProcessed(last, state) == state

\* (mutant) the test of the monitor state is inverted
ReportFor_Inverted(state) == IF state = MONITOR_IS_ON THEN "inactive" ELSE "active"

\* device.c:357 which report is made for a monitor state
ReportFor(state) == IF state = MONITOR_IS_ON THEN "active" ELSE "inactive"

PwCall(SettingGuid, Value, ValueLength, CbContext, status, pc) ==
    [guid |-> SettingGuid, value |-> Value, length |-> ValueLength,
     context |-> CbContext, before |-> LastProcessedMonitorState,
     status |-> status, report |-> "none", pc |-> pc]

\* device.c:321-352: from the entry to the return, or to the store of the new
\* state when one is to be reported
WpCrasherOnPowerSettingsChange(SettingGuid, Value, ValueLength, CbContext) ==
    /\ ~halted
    /\ pwPc = "idle"
    /\ notifications < MaxNotifications
    /\ notifications' = notifications + 1
    /\ pwPrev' = pw
    /\ UNCHANGED <<isrVars, interruptActive, reports>>
    /\ IF ~IsMonitorSetting(SettingGuid)
       THEN /\ pw' = PwCall(SettingGuid, Value, ValueLength, CbContext,
                            STATUS_SUCCESS, "returned")
            /\ UNCHANGED <<LastProcessedMonitorState, pwPc, monitorState, onlyOnOff>>
       ELSE IF BadParameters(Value, ValueLength, CbContext)
       THEN /\ pw' = PwCall(SettingGuid, Value, ValueLength, CbContext,
                            STATUS_INVALID_PARAMETER, "returned")
            /\ UNCHANGED <<LastProcessedMonitorState, pwPc, monitorState, onlyOnOff>>
       ELSE /\ onlyOnOff' = (onlyOnOff /\ Value[1] \in {MONITOR_IS_ON, MONITOR_IS_OFF})
            /\ IF AlreadyProcessed(LastProcessedMonitorState, Value[1])
               THEN /\ pw' = PwCall(SettingGuid, Value, ValueLength, CbContext,
                                    STATUS_SUCCESS, "returned")
                    /\ UNCHANGED <<LastProcessedMonitorState, pwPc, monitorState>>
               ELSE /\ monitorState' = Value[1]
                    /\ LastProcessedMonitorState' =
                           NewLastProcessed(LastProcessedMonitorState, Value[1])
                    /\ pwPc' = "report"
                    /\ pw' = PwCall(SettingGuid, Value, ValueLength, CbContext,
                                    STATUS_SUCCESS, "running")

\* (mutant) reporting the interrupt inactive also drops the recording
WpCrasherReportInterrupt_DropsRecording ==
    /\ ~halted
    /\ pwPc = "report"
    /\ interruptActive' = (ReportFor(monitorState) = "active")
    /\ reports' = Append(reports, ReportFor(monitorState))
    /\ pw' = [pw EXCEPT !.report = ReportFor(monitorState), !.pc = "returned"]
    /\ pwPc' = "idle"
    /\ TimeStampInputPatternBegin' =
           IF ReportFor(monitorState) = "active" THEN TimeStampInputPatternBegin
           ELSE 0
    /\ UNCHANGED <<now, TimeStampSwipeBegin, TimeStampLastInterrupt,
                   NumberOfSwipes, SwipeThreholdReached, halted, bugChecks,
                   isrPath, isrReturn, touchBegin, coldStarts, swipeStarts, obs,
                   LastProcessedMonitorState, monitorState, pwPrev,
                   notifications, onlyOnOff>>

\* device.c:354-368: the report to the framework, and the return
WpCrasherReportInterrupt ==
    /\ ~halted
    /\ pwPc = "report"
    /\ interruptActive' = (ReportFor(monitorState) = "active")
    /\ reports' = Append(reports, ReportFor(monitorState))
    /\ pw' = [pw EXCEPT !.report = ReportFor(monitorState), !.pc = "returned"]
    /\ pwPc' = "idle"
    /\ UNCHANGED <<isrVars, LastProcessedMonitorState, monitorState, pwPrev,
                   notifications, onlyOnOff>>

PowerNotification ==
    \E SettingGuid \in {"GUID_MONITOR_POWER_ON", "GUID_OTHER"},
       Value \in ValueArgs, ValueLength \in LengthArgs, CbContext \in ContextArgs :
        WpCrasherOnPowerSettingsChange(SettingGuid, Value, ValueLength, CbContext)

NoCall == [guid |-> "none", value |-> NullValue, length |-> 0, context |-> NULL,
           before |-> MONITOR_UNKNOWN, status |-> "none", report |-> "none",
           pc |-> "none"]

\* The device context is zero-initialised when the device is created; the
\* interrupt is connected, hence active.
Init ==
    /\ now = BootTime
    /\ TimeStampInputPatternBegin = 0
    /\ TimeStampSwipeBegin = 0
    /\ TimeStampLastInterrupt = 0
    /\ NumberOfSwipes = 0
    /\ SwipeThreholdReached = FALSE
    /\ LastProcessedMonitorState = MONITOR_UNKNOWN
    /\ interruptActive = TRUE
    /\ halted = FALSE
    /\ bugChecks = 0
    /\ isrPath = "none"
    /\ isrReturn = FALSE
    /\ touchBegin = BootTime
    /\ coldStarts = 0
    /\ swipeStarts = 0
    /\ obs = ObsOff
    /\ pwPc = "idle"
    /\ monitorState = 0
    /\ pw = NoCall
    /\ pwPrev = NoCall
    /\ reports = <<>>
    /\ notifications = 0
    /\ onlyOnOff = TRUE

\* The touch interrupts alone (the monitor stays as it is)
NextIsr == InputEvent

SpecIsr == Init /\ [][NextIsr]_vars

\* The power notifications alone (nobody touches the screen)
NextPower == PowerNotification \/ WpCrasherReportInterrupt

SpecPower == Init /\ [][NextPower]_vars

\* Both together: the callback runs at passive level and the ISR may run
\* between its two steps
Next == InputEvent \/ PowerNotification \/ WpCrasherReportInterrupt

Spec == Init /\ [][Next]_vars

\* The display is switched off and on during the first seconds of touching:
\* the notifications are well-formed ones of the monitor power setting
MonitorNotification ==
    \E state \in {MONITOR_IS_OFF, MONITOR_IS_ON} :
        WpCrasherOnPowerSettingsChange("GUID_MONITOR_POWER_ON", <<state>>,
                                       SIZEOF_ULONG, Device)

EarlyInputEvent == now < NearTime /\ InputEvent

NextCycle == EarlyInputEvent \/ MonitorNotification \/ WpCrasherReportInterrupt

SpecCycle == Init /\ [][NextCycle]_vars

\* A step of the ISR (the power callback changes none of these, and every call
\* of it changes its own record)
IsrStep == UNCHANGED powerVars /\ ~UNCHANGED isrVars

Idle == TimeStampInputPatternBegin = 0

C2_TriggerIffFourthSwipe ==
    [][ /\ (bugChecks' # bugChecks) <=>
              (NumberOfSwipes' = NumberOfSwipes + 1 /\ NumberOfSwipes' = 4)
        /\ (IsrStep /\ isrPath' \in {"coldStart", "patternTimeout", "restAbandon",
                                     "swipeTimeout", "earlyReturn", "counted"})
              => bugChecks' = bugChecks
        /\ (bugChecks' # bugChecks /\ ~halted')
              => (TimeStampInputPatternBegin' = 0 /\ bugChecks' = bugChecks + 1)
      ]_vars

C2_Witness ==
    isrPath = "completed" /\ NumberOfSwipes = 4 /\ Idle /\ bugChecks = 1

\* ------------------------------------------------------------------------
\* C3  Hang detection: when the input stalls, the ISR times out and forces
\*     the bug check although fewer than 4 swipes were counted.
\* ------------------------------------------------------------------------
C3_TimeoutForcesBugCheck ==
    [][ (IsrStep /\ isrPath' \in {"patternTimeout", "swipeTimeout"})
           => bugChecks' = bugChecks + 1 ]_vars

\* ------------------------------------------------------------------------
\* C4  NumberOfSwipes is in 0..4; whenever the ISR has returned with the
\*     recording started, NumberOfSwipes < 4; it is 4 only right after the
\*     call that made the bug check, which left the recording idle (or
\*     stopped the system).
\* ------------------------------------------------------------------------
C4_SwipeCountRange ==
    /\ NumberOfSwipes \in 0..4
    /\ (~halted /\ ~Idle) => NumberOfSwipes < 4
    /\ NumberOfSwipes = 4 =>
          /\ isrPath \in {"completed", "bugCheck"}
          /\ bugChecks > 0
          /\ halted \/ Idle

C4_Witness == NumberOfSwipes = 4 /\ Idle /\ ~halted /\ isrPath = "completed"

\* ------------------------------------------------------------------------
\* C5  With the recording started, an event more than 60 s after
\*     TimeStampInputPatternBegin sets it to 0 and changes nothing else: no
\*     swipe is counted and no bug check made; exactly 60 s is no timeout
\*     (the event is then recorded as the last interrupt).
\* ------------------------------------------------------------------------
C5_OverallTimeout ==
    [][ (IsrStep /\ ~Idle) =>
          /\ (now' - TimeStampInputPatternBegin > 60 * 10) =>
                /\ TimeStampInputPatternBegin' = 0
                /\ isrPath' = "patternTimeout"
                /\ UNCHANGED <<TimeStampLastInterrupt, TimeStampSwipeBegin,
                               NumberOfSwipes, SwipeThreholdReached, bugChecks,
                               halted>>
          /\ (now' - TimeStampInputPatternBegin = 60 * 10) =>
                /\ isrPath' # "patternTimeout"
                /\ TimeStampLastInterrupt' = now'
      ]_vars

\* A timeout in the middle of a touch, after swipes were counted
C5_Witness ==
    /\ isrPath = "patternTimeout" /\ Idle
    /\ NumberOfSwipes > 0
    /\ now - TimeStampLastInterrupt <= 2

\* ------------------------------------------------------------------------
\* Power callback: the last two calls
\* ------------------------------------------------------------------------
Returned(call) == call.pc = "returned"

Accepted(call) ==
    /\ call.guid = "GUID_MONITOR_POWER_ON"
    /\ call.value # NullValue
    /\ call.length = 4
    /\ call.context # NULL

ReportsOf(call) == IF call.report = "none" THEN 0 ELSE 1

SameValueTwice ==
    /\ Returned(pw) /\ Returned(pwPrev)
    /\ Accepted(pw) /\ Accepted(pwPrev)
    /\ pw.value = pwPrev.value

\* ------------------------------------------------------------------------
\* C6  The same valid monitor state in two consecutive calls makes exactly one
\*     report (activate or deactivate), not two; the second call returns
\*     success and changes no state.
\* ------------------------------------------------------------------------
C6_ExactlyOneReportAsStated ==
    SameValueTwice =>
        /\ ReportsOf(pwPrev) + ReportsOf(pw) = 1
        /\ pw.status = "STATUS_SUCCESS"
        /\ LastProcessedMonitorState = pw.before

\* As amended: at most one report, made by the first call and only if the
\* value was not the last processed state before it; the second call makes
\* none, returns success and changes no state.
C6_SecondCallIsNoOp ==
    SameValueTwice =>
        /\ pw.report = "none"
        /\ pw.status = "STATUS_SUCCESS"
        /\ LastProcessedMonitorState = pw.before
        /\ LastProcessedMonitorState = pw.value[1]
        /\ ReportsOf(pwPrev) = (IF pwPrev.before # pwPrev.value[1] THEN 1 ELSE 0)

C6_Witness ==
    SameValueTwice /\ pwPrev.report = "active" /\ pw.report = "none" /\ interruptActive

\* ------------------------------------------------------------------------
\* C7  The callback fails with STATUS_INVALID_PARAMETER whenever Value is
\*     NULL, ValueLength is not sizeof(ULONG) or CbContext is NULL; such a
\*     call makes no report and leaves LastProcessedMonitorState unchanged.
\* ------------------------------------------------------------------------
BadCall(call) ==
    call.value = NullValue \/ call.length # 4 \/ call.context = NULL

C7_InvalidParameterAsStated ==
    (Returned(pw) /\ BadCall(pw)) =>
        /\ pw.status = "STATUS_INVALID_PARAMETER"
        /\ pw.report = "none"
        /\ LastProcessedMonitorState = pw.before

\* As amended: whenever the setting is the monitor power setting and ...
C7_InvalidParameterForMonitorSetting ==
    /\ (Returned(pw) /\ pw.guid = "GUID_MONITOR_POWER_ON" /\ BadCall(pw)) =>
          /\ pw.status = "STATUS_INVALID_PARAMETER"
          /\ pw.report = "none"
          /\ LastProcessedMonitorState = pw.before
    /\ pwPc = "report" => ~BadCall(pw)

C7_Witness ==
    /\ Returned(pw) /\ pw.guid = "GUID_MONITOR_POWER_ON"
    /\ pw.value # NullValue /\ pw.length = 4 /\ pw.context = NULL
    /\ pw.status = "STATUS_INVALID_PARAMETER"
    /\ pw.value[1] # LastProcessedMonitorState

\* ------------------------------------------------------------------------
\* C8  A notification of another setting is ignored: success, no report,
\*     LastProcessedMonitorState unchanged, whatever the other arguments are.
\* ------------------------------------------------------------------------
C8_OtherSettingIgnored ==
    (pw.guid = "GUID_OTHER") =>
        /\ Returned(pw)
        /\ pw.status = "STATUS_SUCCESS"
        /\ pw.report = "none"
        /\ LastProcessedMonitorState = pw.before

C8_Witness ==
    /\ pw.guid = "GUID_OTHER" /\ pw.value = NullValue /\ pw.length # 4
    /\ pw.context = NULL /\ pw.status = "STATUS_SUCCESS"

\* ------------------------------------------------------------------------
\* C9  With accepted notifications carrying on or off only: activate is
\*     called only for on and deactivate only for off, each only when the
\*     value differs from LastProcessedMonitorState; the calls alternate; and
\*     once a notification was acted upon the interrupt is active exactly
\*     when LastProcessedMonitorState is on, whenever the callback has
\*     returned.
\* ------------------------------------------------------------------------
C9_ReportsFollowPowerState ==
    onlyOnOff =>
        /\ pw.report = "active" =>
              (pw.value = <<MONITOR_IS_ON>> /\ pw.before # MONITOR_IS_ON)
        /\ pw.report = "inactive" =>
              (pw.value = <<MONITOR_IS_OFF>> /\ pw.before # MONITOR_IS_OFF)
        /\ \A i \in 1..(Len(reports) - 1) : reports[i] # reports[i + 1]
        /\ (pwPc = "idle" /\ reports # <<>>) =>
              (interruptActive <=> LastProcessedMonitorState = MONITOR_IS_ON)

C9_Witness ==
    /\ onlyOnOff /\ pwPc = "idle" /\ Len(reports) = 3
    /\ reports[3] = "inactive" /\ ~interruptActive

\* ------------------------------------------------------------------------
\* C10 LastProcessedMonitorState takes a new value only after the report for
\*     it was made: in no reachable state does it hold the new state while
\*     the report is still to be made.
\* ------------------------------------------------------------------------
C10_StoreAfterReportAsStated ==
    pwPc = "report" => LastProcessedMonitorState # monitorState

\* As amended: it takes the new value before the report is made, and the
\* report for that value is made before the callback returns.
C10_StoreBeforeReport ==
    /\ pwPc = "report" =>
          /\ LastProcessedMonitorState = monitorState
          /\ LastProcessedMonitorState # pw.before
          /\ pw.report = "none"
    /\ (pwPc = "idle" /\ Returned(pw) /\ LastProcessedMonitorState # pw.before) =>
          pw.report = (IF LastProcessedMonitorState = MONITOR_IS_ON
                       THEN "active" ELSE "inactive")

C10_Witness ==
    pwPc = "report" /\ LastProcessedMonitorState = MONITOR_IS_ON /\ ~interruptActive

\* ------------------------------------------------------------------------
\* Events of the ISR, seen from the state before the call
\* ------------------------------------------------------------------------
\* the event is neither a cold start nor an overall timeout
Processed ==
    /\ IsrStep /\ ~Idle
    /\ ~PatternTimedOut(now', TimeStampInputPatternBegin)

\* stoppedTime and swippingTime as the call computes them (device.c:202-209)
StoppedTime == now' - TimeStampLastInterrupt

SwipingTime == TimeStampLastInterrupt - TimeStampSwipeBegin

Abandoned == TimeStampInputPatternBegin' = 0 /\ NumberOfSwipes' = NumberOfSwipes
                 /\ bugChecks' = bugChecks

NewSwipeStarted ==
    /\ TimeStampInputPatternBegin' = TimeStampInputPatternBegin
    /\ TimeStampSwipeBegin' = now'
    /\ SwipeThreholdReached' = FALSE
    /\ NumberOfSwipes' = NumberOfSwipes

C12_RestWindowFiveToFifteen ==
    [][ (Processed /\ IsNewSwipe(StoppedTime)) =>
          /\ (StoppedTime < 5 * 10 \/ StoppedTime > 15 * 10) => Abandoned
          /\ (StoppedTime >= 5 * 10 /\ StoppedTime <= 15 * 10) => NewSwipeStarted
      ]_vars

\* ------------------------------------------------------------------------
\* C13 An event processed with swippingTime exactly 5 s (threshold not yet
\*     reached) leaves NumberOfSwipes unchanged; one with swippingTime above
\*     5 s and at most 10 s increments it.
\* ------------------------------------------------------------------------
C13_ExactlyFiveNotCountedAsStated ==
    [][ (Processed /\ ~IsNewSwipe(StoppedTime) /\ ~SwipeThreholdReached) =>
          /\ SwipingTime = 5 * 10 => NumberOfSwipes' = NumberOfSwipes
          /\ (SwipingTime > 5 * 10 /\ SwipingTime <= 10 * 10) =>
                NumberOfSwipes' = NumberOfSwipes + 1
      ]_vars

\* As amended: exactly 5 s counts; anything below 5 s does not.
C13_FiveSecondsCount ==
    [][ (Processed /\ ~IsNewSwipe(StoppedTime) /\ ~SwipeThreholdReached) =>
          /\ SwipingTime < 5 * 10 =>
                (NumberOfSwipes' = NumberOfSwipes /\ ~SwipeThreholdReached')
          /\ (SwipingTime >= 5 * 10 /\ SwipingTime <= 10 * 10) =>
                (NumberOfSwipes' = NumberOfSwipes + 1 /\ SwipeThreholdReached')
      ]_vars

\* an event counted 5.2 s after the swipe began: the event before it lay
\* exactly 5 s after the begin
C13_Witness ==
    /\ isrPath = "counted" /\ ~Idle
    /\ now - TimeStampSwipeBegin = 52

\* the event finds the recording not started and starts it
ColdStarted == IsrStep /\ Idle

\* ------------------------------------------------------------------------
\* C14 With four valid swipes separated by valid rests the bug check is made
\*     on the last event of the fourth swipe: no event of the fourth swipe
\*     that makes the bug check is followed by a further event of the same
\*     swipe (gap <= 0.2 s).
\* ------------------------------------------------------------------------
C14_FiresOnLastEventAsStated ==
    [][ (IsrStep /\ obs.on /\ obs.strict /\ obs.swipes = 4 /\ obs.fired = 1
           /\ isrPath = "completed")
        => now' - now > 2 ]_vars

\* As amended: the bug check is made on the first event of the fourth swipe
\* that follows an event lying at least 5 s after the swipe began, and on no
\* other event of the sequence.
C14_FiresOnFirstQualifiedEvent ==
    [][ (IsrStep /\ obs.on /\ obs'.on /\ obs'.strict /\ obs.fired = 0) =>
          ( bugChecks' = bugChecks + 1
              <=> (obs.swipes = 4 /\ obs'.swipes = 4 /\ ~obs.qual /\ obs'.qual) )
      ]_vars

\* the fourth swipe went on after the event that made the bug check
C14_Witness ==
    /\ obs.on /\ obs.strict /\ obs.swipes = 4 /\ obs.fired = 1
    /\ isrPath = "coldStart"
    /\ now - obs.begin > 5 * 10

\* ------------------------------------------------------------------------
\* C15 Within one swipe NumberOfSwipes increases by at most 1;
\*     SwipeThreholdReached is set exactly when the swipe is counted and is
\*     cleared only by a cold start or by the start of a new swipe.
\* ------------------------------------------------------------------------
C15_CountedOncePerSwipe ==
    [][ IsrStep =>
          /\ NumberOfSwipes' > NumberOfSwipes =>
                /\ NumberOfSwipes' = NumberOfSwipes + 1
                /\ ~SwipeThreholdReached
          /\ (~SwipeThreholdReached /\ SwipeThreholdReached')
                <=> NumberOfSwipes' = NumberOfSwipes + 1
          /\ (SwipeThreholdReached /\ ~SwipeThreholdReached') =>
                \/ ColdStarted
                \/ (Processed /\ StoppedTime > 2 /\ TimeStampSwipeBegin' = now')
          /\ (Processed /\ StoppedTime <= 2 /\ SwipeThreholdReached) =>
                NumberOfSwipes' = NumberOfSwipes
          /\ ~Idle' => NumberOfSwipes' <= swipeStarts' + 1
      ]_vars

\* the swipe went on for a second after it was counted
C15_Witness ==
    /\ ~Idle /\ SwipeThreholdReached /\ NumberOfSwipes = 2
    /\ isrPath = "earlyReturn"
    /\ now - TimeStampSwipeBegin >= 6 * 10

\* ------------------------------------------------------------------------
\* C16 A gap of exactly 0.2 s belongs to the same swipe: TimeStampSwipeBegin
\*     and SwipeThreholdReached are not reset, the rest window is not applied
\*     and the attempt is not abandoned on account of the gap.
\* ------------------------------------------------------------------------
C16_BoundaryGapSameSwipe ==
    [][ (Processed /\ StoppedTime = 2) =>
          /\ TimeStampSwipeBegin' = TimeStampSwipeBegin
          /\ SwipeThreholdReached => SwipeThreholdReached'
          /\ isrPath' # "restAbandon"
          /\ SwipingTime <= 10 * 10 =>
                (TimeStampInputPatternBegin' # 0 \/ bugChecks' = bugChecks + 1)
      ]_vars

\* the second event of a touch, 0.2 s after the first
C16_Witness ==
    /\ ~Idle /\ isrPath = "earlyReturn"
    /\ TimeStampSwipeBegin = touchBegin
    /\ now - touchBegin = 2
    /\ TimeStampSwipeBegin > TimeStampInputPatternBegin

C19_TriggerTakesThirtyFiveSeconds ==
    [][ (IsrStep /\ bugChecks' = bugChecks + 1) =>
          /\ now' - TimeStampInputPatternBegin >= 35 * 10
          /\ now' - TimeStampInputPatternBegin <= 60 * 10
          /\ swipeStarts' >= 3
      ]_vars

C19_Witness ==
    /\ isrPath = "bugCheck" /\ halted
    /\ swipeStarts = 3
    /\ now - TimeStampInputPatternBegin < 40 * 10

\* ------------------------------------------------------------------------
\* C20 A swipe that ended uncounted does not reject the attempt: when the
\*     next event comes after a rest inside the accepted window a new swipe
\*     starts, the attempt goes on and NumberOfSwipes is unchanged; an attempt
\*     with uncounted swipes still ends in the bug check.
\* ------------------------------------------------------------------------
C20_ShortSwipeNotRejected ==
    [][ (/\ Processed /\ ~SwipeThreholdReached
         /\ StoppedTime >= SINGLE_SWIPE_MIN_PERIOD
         /\ StoppedTime <= SINGLE_SWIPE_MAX_PERIOD)
        => NewSwipeStarted /\ isrPath' = "earlyReturn" ]_vars

\* the bug check was made in an attempt of six swipes, two of them uncounted
C20_Witness ==
    /\ isrPath \in {"completed", "bugCheck"}
    /\ swipeStarts = 5

\* ------------------------------------------------------------------------
\* C18 The two handlers touch disjoint state: the power callback writes none
\*     of the five fields of the recording (a display off/on cycle does not
\*     reset an attempt in progress), and the ISR neither writes
\*     LastProcessedMonitorState nor reports the interrupt active or inactive.
\* ------------------------------------------------------------------------
sessionFields == <<TimeStampInputPatternBegin, TimeStampSwipeBegin,
                   TimeStampLastInterrupt, NumberOfSwipes, SwipeThreholdReached>>

C18_HandlersTouchDisjointState ==
    [][ /\ (notifications' # notifications \/ pwPc' # pwPc \/ pw' # pw)
              => UNCHANGED <<sessionFields, bugChecks, halted, isrPath>>
        /\ (sessionFields' # sessionFields \/ now' # now \/ isrPath' # isrPath)
              => UNCHANGED <<LastProcessedMonitorState, interruptActive,
                             reports, pwPc>>
      ]_vars

\* the display was switched off and is being switched on again while an
\* attempt with a counted swipe is in progress
C18_Witness ==
    /\ ~Idle /\ NumberOfSwipes = 1 /\ SwipeThreholdReached
    /\ reports = <<"inactive">>
    /\ pwPc = "report" /\ monitorState = MONITOR_IS_ON
====
